---- MODULE Spec2Model ----
(***************************************************************************)
(* Model of the serverless entry point (handler) and of the database seed  *)
(* script (parseMongoDBExtendedJSON, parseJSON, seedCounter ...            *)
(* seedProjectEmployee, main) of the employee/project management platform. *)
(*                                                                         *)
(* JavaScript values are tagged records:                                   *)
(*   null -> [t |-> "null"]        true/false -> [t |-> "bool", b |-> ..]  *)
(*   5    -> [t |-> "num", n |-> 5]      NaN  -> [t |-> "nan"]             *)
(*   "x"  -> [t |-> "str", s |-> "x"]    [..] -> [t |-> "arr", a |-> <<>>] *)
(*   {..} -> [t |-> "obj", o |-> f], f a function from key names to values *)
(*   Date -> [t |-> "date", ms |-> n]    Invalid Date -> [t |-> "baddate"] *)
(*   undefined -> [t |-> "undefined"]; a property that is undefined is a   *)
(*   key that is not in the DOMAIN of the object.                          *)
(***************************************************************************)
EXTENDS Integers, Sequences, FiniteSets, TLC

VARIABLES
    pin, pout, pst,                       \* parseMongoDBExtendedJSON: argument, result, position
    hreq, hres, hinner, hpc, hret, hargs, \* handler: request, response, callee behaviour, position
    files, db, pc, stage, idx, recs,      \* seed script: export files, collections, position in main
    successCount, reports, faults, clock, horizon, run,
    opened, closed, exitCode, oplog, prev

parseVars == <<pin, pout, pst>>
handlerVars == <<hreq, hres, hinner, hpc, hret, hargs>>
seedVars == <<files, db, pc, stage, idx, recs, successCount, reports, faults, clock,
              horizon, run,
              opened, closed, exitCode, oplog, prev>>
vars == <<parseVars, handlerVars, seedVars>>

----------------------------------------------------------------------------
(* JavaScript values *)

Null == [t |-> "null"]
NaN == [t |-> "nan"]
InvalidDate == [t |-> "baddate"]
Undefined == [t |-> "undefined"]
Bool(b) == [t |-> "bool", b |-> b]
Num(n) == [t |-> "num", n |-> n]
Str(s) == [t |-> "str", s |-> s]
Arr(a) == [t |-> "arr", a |-> a]
Obj(o) == [t |-> "obj", o |-> o]
Date(ms) == [t |-> "date", ms |-> ms]
EmptyObj == Obj(<<>>)

\* value.key: undefined when the value has no such property
Prop(v, k) == IF v.t = "obj" /\ k \in DOMAIN v.o THEN v.o[k] ELSE Undefined

\* JavaScript truthiness (the left operand of ||, &&, ?:)
Truthy(v) ==
    CASE v.t = "null" -> FALSE
      [] v.t = "undefined" -> FALSE
      [] v.t = "nan" -> FALSE
      [] v.t = "bool" -> v.b
      [] v.t = "num" -> v.n # 0
      [] v.t = "str" -> v.s # ""
      [] OTHER -> TRUE

----------------------------------------------------------------------------
(* Strings.  TLA+ strings cannot be taken apart, so the characters of the  *)
(* string literals the model uses are tabulated here.                      *)

Chars(s) ==
    CASE s = "" -> <<>>
      [] s = "0" -> <<"0">>
      [] s = "5" -> <<"5">>
      [] s = "12" -> <<"1", "2">>
      [] s = "-7" -> <<"-", "7">>
      [] s = "+3" -> <<"+", "3">>
      [] s = "007" -> <<"0", "0", "7">>
      [] s = " 42" -> <<" ", "4", "2">>
      [] s = "12abc" -> <<"1", "2", "a", "b", "c">>
      [] s = "5.9" -> <<"5", ".", "9">>
      [] s = "abc" -> <<"a", "b", "c">>
      [] s = "-" -> <<"-">>
      [] s = "1728074791" -> <<"1", "7", "2", "8", "0", "7", "4", "7", "9", "1">>
      [] OTHER -> <<"?">>

DigitVal(c) ==
    CASE c = "0" -> 0 [] c = "1" -> 1 [] c = "2" -> 2 [] c = "3" -> 3 [] c = "4" -> 4
      [] c = "5" -> 5 [] c = "6" -> 6 [] c = "7" -> 7 [] c = "8" -> 8 [] c = "9" -> 9
      [] OTHER -> -1

IsDigit(c) == DigitVal(c) >= 0

RECURSIVE SkipSpace(_)
SkipSpace(cs) == IF cs # <<>> /\ Head(cs) = " " THEN SkipSpace(Tail(cs)) ELSE cs

\* value of the longest prefix of decimal digits of cs, continuing from acc
RECURSIVE DigitsValue(_, _)
DigitsValue(cs, acc) ==
    IF cs # <<>> /\ IsDigit(Head(cs))
    THEN DigitsValue(Tail(cs), acc * 10 + DigitVal(Head(cs)))
    ELSE acc

\* parseInt(string, 10): leading white space, an optional sign, then the
\* longest run of digits; NaN when there is no digit
ParseIntChars(cs) ==
    LET body == SkipSpace(cs)
        neg == body # <<>> /\ Head(body) = "-"
        signed == body # <<>> /\ Head(body) \in {"-", "+"}
        digits == IF signed THEN Tail(body) ELSE body
    IN  IF digits = <<>> \/ ~IsDigit(Head(digits))
        THEN NaN
        ELSE Num(IF neg THEN 0 - DigitsValue(digits, 0) ELSE DigitsValue(digits, 0))

\* parseInt(value, 10) for any value: the argument is first converted to a string
RECURSIVE ParseInt(_)
ParseInt(v) ==
    CASE v.t = "str" -> ParseIntChars(Chars(v.s))
      [] v.t = "num" -> v
      [] v.t = "arr" -> IF Len(v.a) = 0 THEN NaN ELSE ParseInt(v.a[1])
      [] OTHER -> NaN

----------------------------------------------------------------------------
(* Dates.  Times are milliseconds since the epoch; the date strings of the *)
(* model are the ISO renderings of a few early instants.                   *)

DateParse(s) ==
    CASE s = "1970-01-01T00:00:00.001Z" -> Date(1)
      [] s = "1970-01-01T00:00:00.002Z" -> Date(2)
      [] s = "1970-01-01T00:00:00.003Z" -> Date(3)
      [] OTHER -> InvalidDate

\* new Date(value)
NewDate(v) ==
    CASE v.t = "date" -> v
      [] v.t = "baddate" -> v
      [] v.t = "str" -> DateParse(v.s)
      [] v.t = "num" -> Date(v.n)
      [] v.t = "null" -> Date(0)
      [] v.t = "bool" -> Date(IF v.b THEN 1 ELSE 0)
      [] v.t = "arr" -> IF Len(v.a) = 1 /\ v.a[1].t = "str" THEN DateParse(v.a[1].s)
                        ELSE InvalidDate
      [] OTHER -> InvalidDate

----------------------------------------------------------------------------
(* parseMongoDBExtendedJSON *)

RECURSIVE parseMongoDBExtendedJSON(_)

parseMongoDBExtendedJSON(value) ==
    CASE value.t = "obj" ->
            IF "$date" \in DOMAIN value.o THEN NewDate(value.o["$date"])
            ELSE IF "$numberLong" \in DOMAIN value.o THEN ParseInt(value.o["$numberLong"])
            ELSE IF "$numberInt" \in DOMAIN value.o THEN ParseInt(value.o["$numberInt"])
            ELSE IF "$oid" \in DOMAIN value.o THEN value.o["$oid"]
            ELSE Obj([k \in DOMAIN value.o |-> parseMongoDBExtendedJSON(value.o[k])])
      [] value.t = "arr" ->
            Arr([i \in DOMAIN value.a |-> parseMongoDBExtendedJSON(value.a[i])])
      [] OTHER -> value

----------------------------------------------------------------------------
(* Arguments of parseMongoDBExtendedJSON that the model explores *)

MaxLen == 2      \* longest array / most keys of an object
MaxDepth == 2    \* containers nested around a leaf

KeyNames == <<"a", "b", "c", "d">>
ObjKeys == {KeyNames[i] : i \in 1..(IF MaxLen < 4 THEN MaxLen ELSE 4)}

IntTexts == {"0", "5", "12", "-7", "+3", "007", " 42", "12abc", "5.9", "abc", "-", "",
             "1728074791"}
DateTexts == {"1970-01-01T00:00:00.001Z", "1970-01-01T00:00:00.002Z", "not a date"}

Scalars == {Null, Bool(TRUE), Bool(FALSE), Num(0), Num(5), Str(""), Str("abc")}

Wrappers ==
    {Obj("$numberInt" :> Str(s)) : s \in IntTexts}
    \cup {Obj("$numberLong" :> Str(s)) : s \in {"0", "12", "-7", "1728074791"}}
    \cup {Obj("$date" :> Str(s)) : s \in DateTexts}
    \cup {Obj("$oid" :> Str("6915278f2ea0c14829bb978a"))}

\* objects that carry a wrapper key without being an export's wrapper
OddWrappers ==
    { Obj("$oid" :> Obj("$numberInt" :> Str("5"))),
      Obj("$date" :> Obj("$numberLong" :> Str("5"))),
      Obj("$date" :> Num(2)),
      Obj("$numberInt" :> Num(5)),
      Obj(("$numberInt" :> Str("5")) @@ ("a" :> Str("abc"))),
      Obj(("$date" :> Str("1970-01-01T00:00:00.001Z")) @@ ("$oid" :> Str("abc"))) }

Leaves == Scalars \cup Wrappers \cup OddWrappers

NestLeaves ==
    { Null, Num(5), Str("abc"), Bool(FALSE),
      Obj("$numberInt" :> Str("5")),
      Obj("$numberLong" :> Str("1728074791")),
      Obj("$date" :> Str("1970-01-01T00:00:00.001Z")),
      Obj("$oid" :> Str("6915278f2ea0c14829bb978a")) }

ArraysOver(S) == UNION {{Arr(a) : a \in [1..n -> S]} : n \in 0..MaxLen}
ObjectsOver(S) == UNION {{Obj(o) : o \in [K -> S]} : K \in SUBSET ObjKeys}

Around(S) == {Arr(<<x>>) : x \in S} \cup {Obj("a" :> x) : x \in S}
               \cup {Arr(<<Null, x>>) : x \in S}

RECURSIVE Nested(_)
Nested(d) ==
    IF d <= 1 THEN ArraysOver(NestLeaves) \cup ObjectsOver(NestLeaves)
    ELSE Around(Nested(d - 1))

JsonInputs == Leaves \cup UNION {Nested(d) : d \in 1..MaxDepth}

InitParse ==
    /\ pin \in JsonInputs
    /\ pout = Null
    /\ pst = "ready"

IdleParse ==
    /\ pin = Null
    /\ pout = Null
    /\ pst = "idle"

\* one call parseMongoDBExtendedJSON(pin)
ParseCall ==
    /\ pst = "ready"
    /\ pout' = parseMongoDBExtendedJSON(pin)
    /\ pst' = "done"
    /\ UNCHANGED pin
    /\ UNCHANGED <<handlerVars, seedVars>>

----------------------------------------------------------------------------
(* The seed script: the expressions of the $set documents *)

\* a || b
Or(a, b) == IF Truthy(a) THEN a ELSE b

\* x ? new Date(x) : d
DateOr(x, d) == IF Truthy(x) THEN NewDate(x) ELSE d

\* a variant of the next definition that forgets the default
DefinedOrNothing(x, d) == IF x # Undefined THEN x ELSE Null

\* x !== undefined ? x : d
DefinedOr(x, d) == IF x # Undefined THEN x ELSE d

\* what the driver writes for a value: undefined is serialised as null
Stored(v) == IF v = Undefined THEN Null ELSE v

\* the $set document of seedCounter (lines 131-135)
seedCounterSet(counter, created, updated) ==
    [ _id |-> Stored(Prop(counter, "_id")),
      key |-> Stored(Prop(counter, "key")),
      value |-> Stored(Prop(counter, "value")),
      createdAt |-> DateOr(Prop(counter, "createdAt"), Date(created)),
      updatedAt |-> DateOr(Prop(counter, "updatedAt"), Date(updated)) ]

\* the $set document of seedDepartmentParent (lines 166-175)
seedDepartmentParentSet(dept, created, updated) ==
    [ _id |-> Stored(Prop(dept, "_id")),
      departmentId |-> Stored(Prop(dept, "departmentId")),
      departmentName |-> Stored(Prop(dept, "departmentName")),
      departmentLogo |-> Or(Prop(dept, "departmentLogo"), Null),
      description |-> Or(Prop(dept, "description"), Null),
      leadContact |-> Or(Prop(dept, "leadContact"), Null),
      leadEmail |-> Or(Prop(dept, "leadEmail"), Null),
      leadPhone |-> Or(Prop(dept, "leadPhone"), Null),
      createdAt |-> DateOr(Prop(dept, "createdAt"), Date(created)),
      updatedAt |-> DateOr(Prop(dept, "updatedAt"), Date(updated)) ]

\* the $set document of seedDepartmentChild (lines 206-212)
seedDepartmentChildSet(dept, created, updated) ==
    [ _id |-> Stored(Prop(dept, "_id")),
      childDeptId |-> Stored(Prop(dept, "childDeptId")),
      departmentName |-> Stored(Prop(dept, "departmentName")),
      parentDeptId |-> Stored(Prop(dept, "parentDeptId")),
      description |-> Or(Prop(dept, "description"), Null),
      createdAt |-> DateOr(Prop(dept, "createdAt"), Date(created)),
      updatedAt |-> DateOr(Prop(dept, "updatedAt"), Date(updated)) ]

\* the $set document of seedEmployee (lines 243-278)
seedEmployeeSet(emp, created, updated) ==
    [ _id |-> Stored(Prop(emp, "_id")),
      employeeId |-> Stored(Prop(emp, "employeeId")),
      employeeName |-> Stored(Prop(emp, "employeeName")),
      contactNo |-> Or(Prop(emp, "contactNo"), Null),
      emailId |-> Or(Prop(emp, "emailId"), Null),
      deptId |-> Or(Prop(emp, "deptId"), Null),
      department |-> Or(Prop(emp, "department"), Null),
      password |-> Or(Prop(emp, "password"), Null),
      gender |-> Or(Prop(emp, "gender"), Null),
      role |-> Or(Prop(emp, "role"), Null),
      title |-> Or(Prop(emp, "title"), Null),
      avatarUrl |-> Or(Prop(emp, "avatarUrl"), Null),
      location |-> Or(Prop(emp, "location"), Null),
      timezone |-> Or(Prop(emp, "timezone"), Null),
      employmentType |-> Or(Prop(emp, "employmentType"), Null),
      managerId |-> Or(Prop(emp, "managerId"), Null),
      hireDate |-> DateOr(Prop(emp, "hireDate"), Null),
      bio |-> Or(Prop(emp, "bio"), Null),
      about |-> Or(Prop(emp, "about"), Null),
      notes |-> Or(Prop(emp, "notes"), Null),
      tags |-> Or(Prop(emp, "tags"), Arr(<<>>)),
      skills |-> Or(Prop(emp, "skills"), Arr(<<>>)),
      certifications |-> Or(Prop(emp, "certifications"), Arr(<<>>)),
      interests |-> Or(Prop(emp, "interests"), Arr(<<>>)),
      languages |-> Or(Prop(emp, "languages"), Arr(<<>>)),
      socialLinks |-> Or(Prop(emp, "socialLinks"), Null),
      workPreferences |-> Or(Prop(emp, "workPreferences"), Null),
      availability |-> Or(Prop(emp, "availability"), Null),
      preferences |-> Or(Prop(emp, "preferences"), Null),
      performanceSnapshot |-> Or(Prop(emp, "performanceSnapshot"), Null),
      documents |-> Or(Prop(emp, "documents"), Null),
      customFields |-> Or(Prop(emp, "customFields"), Null),
      createdAt |-> DateOr(Prop(emp, "createdAt"), Date(created)),
      updatedAt |-> DateOr(Prop(emp, "updatedAt"), Date(updated)),
      isActive |-> DefinedOr(Prop(emp, "isActive"), Bool(TRUE)),
      lastActiveAt |-> DateOr(Prop(emp, "lastActiveAt"), Null) ]

\* the $set document of seedProject (lines 309-362)
seedProjectSet(project, created, updated) ==
    [ _id |-> Stored(Prop(project, "_id")),
      projectId |-> Stored(Prop(project, "projectId")),
      projectName |-> Stored(Prop(project, "projectName")),
      clientName |-> Or(Prop(project, "clientName"), Null),
      clientIndustry |-> Or(Prop(project, "clientIndustry"), Null),
      startDate |-> DateOr(Prop(project, "startDate"), Null),
      endDate |-> DateOr(Prop(project, "endDate"), Null),
      leadByEmpId |-> Or(Prop(project, "leadByEmpId"), Null),
      sponsorEmpId |-> Or(Prop(project, "sponsorEmpId"), Null),
      contactPerson |-> Or(Prop(project, "contactPerson"), Null),
      contactNo |-> Or(Prop(project, "contactNo"), Null),
      emailId |-> Or(Prop(project, "emailId"), Null),
      contactTitle |-> Or(Prop(project, "contactTitle"), Null),
      contactNotes |-> Or(Prop(project, "contactNotes"), Null),
      overview |-> Or(Prop(project, "overview"), Null),
      scope |-> Or(Prop(project, "scope"), Null),
      successMetrics |-> Or(Prop(project, "successMetrics"), Null),
      status |-> Or(Prop(project, "status"), Str("draft")),
      statusReason |-> Or(Prop(project, "statusReason"), Null),
      statusHistory |-> Or(Prop(project, "statusHistory"), Null),
      timeline |-> Or(Prop(project, "timeline"), Null),
      milestones |-> Or(Prop(project, "milestones"), Null),
      categories |-> Or(Prop(project, "categories"), Arr(<<>>)),
      tags |-> Or(Prop(project, "tags"), Arr(<<>>)),
      focusAreas |-> Or(Prop(project, "focusAreas"), Arr(<<>>)),
      blockers |-> Or(Prop(project, "blockers"), Null),
      risks |-> Or(Prop(project, "risks"), Null),
      riskRegister |-> Or(Prop(project, "riskRegister"), Null),
      budget |-> Or(Prop(project, "budget"), Null),
      financials |-> Or(Prop(project, "financials"), Null),
      resourcesPlan |-> Or(Prop(project, "resourcesPlan"), Null),
      readinessChecklist |-> Or(Prop(project, "readinessChecklist"), Null),
      readinessScore |-> Or(Prop(project, "readinessScore"), Null),
      approvalStatus |-> Or(Prop(project, "approvalStatus"), Str("draft")),
      approvalRequestedAt |-> DateOr(Prop(project, "approvalRequestedAt"), Null),
      approvalRequestedBy |-> Or(Prop(project, "approvalRequestedBy"), Null),
      approvalResolvedAt |-> DateOr(Prop(project, "approvalResolvedAt"), Null),
      approvalResolvedBy |-> Or(Prop(project, "approvalResolvedBy"), Null),
      approvalReason |-> Or(Prop(project, "approvalReason"), Null),
      approvalNotes |-> Or(Prop(project, "approvalNotes"), Null),
      reviewerComments |-> Or(Prop(project, "reviewerComments"), Null),
      progress |-> Or(Prop(project, "progress"), Null),
      health |-> Or(Prop(project, "health"), Null),
      documents |-> Or(Prop(project, "documents"), Null),
      externalLinks |-> Or(Prop(project, "externalLinks"), Null),
      aiGeneratedInsights |-> Or(Prop(project, "aiGeneratedInsights"), Null),
      cmsContentRefs |-> Or(Prop(project, "cmsContentRefs"), Arr(<<>>)),
      lastSyncedAt |-> DateOr(Prop(project, "lastSyncedAt"), Null),
      stageGate |-> Or(Prop(project, "stageGate"), Null),
      governance |-> Or(Prop(project, "governance"), Null),
      communicationPlan |-> Or(Prop(project, "communicationPlan"), Null),
      createdAt |-> DateOr(Prop(project, "createdAt"), Date(created)),
      updatedAt |-> DateOr(Prop(project, "updatedAt"), Date(updated)),
      archivedAt |-> DateOr(Prop(project, "archivedAt"), Null) ]

\* the $set document of seedProjectEmployee (lines 393-412)
seedProjectEmployeeSet(projEmp, created, updated) ==
    [ _id |-> Stored(Prop(projEmp, "_id")),
      empProjectId |-> Stored(Prop(projEmp, "empProjectId")),
      projectId |-> Stored(Prop(projEmp, "projectId")),
      empId |-> Stored(Prop(projEmp, "empId")),
      assignedDate |-> DateOr(Prop(projEmp, "assignedDate"), Null),
      role |-> Or(Prop(projEmp, "role"), Null),
      isActive |-> DefinedOr(Prop(projEmp, "isActive"), Bool(TRUE)),
      allocationPct |-> Or(Prop(projEmp, "allocationPct"), Null),
      billable |-> DefinedOr(Prop(projEmp, "billable"), Null),
      billingRate |-> Or(Prop(projEmp, "billingRate"), Null),
      costRate |-> Or(Prop(projEmp, "costRate"), Null),
      notes |-> Or(Prop(projEmp, "notes"), Null),
      responsibilities |-> Or(Prop(projEmp, "responsibilities"), Arr(<<>>)),
      skillsApplied |-> Or(Prop(projEmp, "skillsApplied"), Arr(<<>>)),
      toolsUsed |-> Or(Prop(projEmp, "toolsUsed"), Arr(<<>>)),
      schedule |-> Or(Prop(projEmp, "schedule"), Null),
      contribution |-> Or(Prop(projEmp, "contribution"), Null),
      createdAt |-> DateOr(Prop(projEmp, "createdAt"), Date(created)),
      updatedAt |-> DateOr(Prop(projEmp, "updatedAt"), Date(updated)),
      unassignedAt |-> DateOr(Prop(projEmp, "unassignedAt"), Null) ]

\* main seeds the collections in this order
SeedOrder == <<"Counter", "DepartmentParent", "DepartmentChild", "Employee", "Project",
               "ProjectEmployee">>

Collections == {SeedOrder[i] : i \in DOMAIN SeedOrder}

\* the business key each seed function filters on
KeyOf(c) ==
    CASE c = "Counter" -> "key"
      [] c = "DepartmentParent" -> "departmentId"
      [] c = "DepartmentChild" -> "childDeptId"
      [] c = "Employee" -> "employeeId"
      [] c = "Project" -> "projectId"
      [] c = "ProjectEmployee" -> "empProjectId"

SetDocument(c, r, created, updated) ==
    CASE c = "Counter" -> seedCounterSet(r, created, updated)
      [] c = "DepartmentParent" -> seedDepartmentParentSet(r, created, updated)
      [] c = "DepartmentChild" -> seedDepartmentChildSet(r, created, updated)
      [] c = "Employee" -> seedEmployeeSet(r, created, updated)
      [] c = "Project" -> seedProjectSet(r, created, updated)
      [] c = "ProjectEmployee" -> seedProjectEmployeeSet(r, created, updated)

\* the filter { <key>: record.<key> } as the driver sends it
FilterValue(c, r) == Stored(Prop(r, KeyOf(c)))

----------------------------------------------------------------------------
(* parseJSON.  An export file is missing, blank (white space only), not    *)
(* valid JSON, unreadable (it exists and reading it fails), or holds a     *)
(* JSON value.                                                             *)

MissingFile == [kind |-> "missing"]
BlankFile == [kind |-> "blank"]
InvalidFile == [kind |-> "invalid"]
UnreadableFile == [kind |-> "unreadable"]
JsonFile(v) == [kind |-> "json", data |-> v]

Returned(a) == [threw |-> FALSE, value |-> a]
Threw == [threw |-> TRUE, value |-> <<>>]

\* a variant without the try/catch around JSON.parse
parseJSONUncaught(file) ==
    CASE file.kind = "missing" -> Returned(<<>>)
      [] file.kind = "unreadable" -> Threw
      [] file.kind = "blank" -> Returned(<<>>)
      [] file.kind = "invalid" -> Threw
      [] file.kind = "json" ->
            LET array == IF file.data.t = "arr" THEN file.data.a ELSE <<file.data>>
            IN  Returned([i \in DOMAIN array |-> parseMongoDBExtendedJSON(array[i])])

parseJSON(file) ==
    CASE file.kind = "missing" -> Returned(<<>>)
      [] file.kind = "unreadable" -> Threw
      [] file.kind = "blank" -> Returned(<<>>)
      [] file.kind = "invalid" -> Returned(<<>>)
      [] file.kind = "json" ->
            LET array == IF file.data.t = "arr" THEN file.data.a ELSE <<file.data>>
            IN  Returned([i \in DOMAIN array |-> parseMongoDBExtendedJSON(array[i])])

----------------------------------------------------------------------------
(* collection.updateOne(filter, { $set: doc }, { upsert: true }) on a      *)
(* collection held as the sequence of its documents.  The database rejects *)
(* a $set that would change the _id of the matched document and an insert  *)
(* whose _id another document of the collection already has.               *)

Accepted(coll) == [ok |-> TRUE, coll |-> coll]
Rejected(coll) == [ok |-> FALSE, coll |-> coll]

Matches(coll, keyField, keyValue) == {i \in DOMAIN coll : coll[i][keyField] = keyValue}

Least(S) == CHOOSE i \in S : \A j \in S : i <= j

\* a variant that inserts without looking for a document to update
insertAlways(coll, keyField, keyValue, doc) ==
    IF \E j \in DOMAIN coll : coll[j]._id = doc._id
    THEN Rejected(coll)
    ELSE Accepted(Append(coll, doc @@ (keyField :> keyValue)))

updateOne(coll, keyField, keyValue, doc) ==
    LET found == Matches(coll, keyField, keyValue)
    IN  IF found # {}
        THEN LET i == Least(found)
             IN  IF doc._id # coll[i]._id
                 THEN Rejected(coll)
                 ELSE Accepted([coll EXCEPT ![i] = doc @@ coll[i]])
        ELSE IF \E j \in DOMAIN coll : coll[j]._id = doc._id
             THEN Rejected(coll)
             ELSE Accepted(Append(coll, doc @@ (keyField :> keyValue)))

----------------------------------------------------------------------------
(* Export files that the model explores *)

MaxRecs == 2     \* most records of an export file
MaxRuns == 2     \* runs of the seed script against the same files
MaxFaults == 1   \* failures of the database connection during the runs
MaxTicks == 2    \* milliseconds that pass while the runs are observed

\* a field every record of the collection carries besides _id and the key
PayloadField(c) ==
    CASE c = "Counter" -> "value"
      [] c = "DepartmentParent" -> "departmentName"
      [] c = "DepartmentChild" -> "departmentName"
      [] c = "Employee" -> "employeeName"
      [] c = "Project" -> "projectName"
      [] c = "ProjectEmployee" -> "empId"

KeyValues(c) ==
    IF c = "Counter" THEN <<Str("employee"), Str("project")>>
    ELSE <<Obj("$numberInt" :> Str("5")), Obj("$numberInt" :> Str("12"))>>

Stamps == ("createdAt" :> Obj("$date" :> Str("1970-01-01T00:00:00.001Z")))
          @@ ("updatedAt" :> Obj("$date" :> Str("1970-01-01T00:00:00.002Z")))

\* a document of an export: with its time stamps (dated) or without them
ExportRecord(c, id, k, dated) ==
    LET core == ("_id" :> Obj("$oid" :> Str(id))) @@ (KeyOf(c) :> KeyValues(c)[k])
                @@ (PayloadField(c) :> Str(IF dated THEN "x" ELSE "y"))
    IN  Obj(IF dated THEN core @@ Stamps ELSE core)

\* the records of the files that grow with MaxRecs: two with one key and one
\* _id, with and without time stamps, one with another key and the same _id,
\* one with another key and another _id
RecordPool(c) ==
    { ExportRecord(c, "a", 1, TRUE), ExportRecord(c, "a", 1, FALSE),
      ExportRecord(c, "b", 1, TRUE), ExportRecord(c, "b", 2, TRUE) }

\* files that are missing, blank, invalid, unreadable, empty or a single
\* object, and files with an empty record, a null or a changed _id
OddFiles(c) ==
    { MissingFile, BlankFile, InvalidFile, UnreadableFile, JsonFile(Arr(<<>>)),
      JsonFile(ExportRecord(c, "b", 2, TRUE)),
      JsonFile(Arr(<<EmptyObj>>)),
      JsonFile(Arr(<<Null>>)),
      JsonFile(Arr(<<ExportRecord(c, "a", 1, TRUE), Null>>)),
      JsonFile(Arr(<<ExportRecord(c, "a", 1, TRUE), ExportRecord(c, "a", 2, TRUE)>>)) }

ExportFiles(c) ==
    OddFiles(c)
    \cup UNION {{JsonFile(Arr(a)) : a \in [1..n -> RecordPool(c)]} : n \in 1..MaxRecs}

BasicFile(c) == JsonFile(Arr(<<ExportRecord(c, "a", 1, TRUE)>>))

\* the fields a document of the collection is written with
FieldsOf(c) == DOMAIN SetDocument(c, EmptyObj, 0, 0)

\* values an export may hold in a field
FieldValues ==
    { Null, Bool(FALSE), Bool(TRUE), Num(0), Num(7), Str(""), Str("abc"),
      Arr(<<>>), Arr(<<Str("abc")>>), EmptyObj, Obj("a" :> Num(0)),
      Obj("$numberInt" :> Str("0")), Obj("$numberInt" :> Str("12")),
      Obj("$date" :> Str("1970-01-01T00:00:00.001Z")), Str("1970-01-01T00:00:00.002Z") }

\* a record with _id and key, and one more field f holding v
RecordWith(c, f, v) ==
    Obj((f :> v) @@ ("_id" :> Obj("$oid" :> Str("a"))) @@ (KeyOf(c) :> KeyValues(c)[1]))

FieldFiles(c) ==
    {JsonFile(Arr(<<RecordWith(c, f, v)>>)) : f \in FieldsOf(c), v \in FieldValues}
    \cup {JsonFile(Arr(<<EmptyObj>>))}

----------------------------------------------------------------------------
(* main and the seed functions *)

NotRun == [state |-> "notrun", success |-> 0, total |-> 0]
EmptyDb == [c \in Collections |-> <<>>]

InitSeedWith(fs) ==
    /\ files = fs
    /\ db = EmptyDb
    /\ pc = "start"
    /\ stage = 0
    /\ idx = 0
    /\ recs = <<>>
    /\ successCount = 0
    /\ reports = [c \in Collections |-> NotRun]
    /\ clock = 10
    /\ run = 1
    /\ opened = 0
    /\ closed = 0
    /\ exitCode = 0
    /\ oplog = <<>>
    /\ prev = [db |-> EmptyDb, clean |-> FALSE]

\* any export file for one collection and, for the others, a one-record file
\* each or no file; the connection may fail MaxFaults times, and up to
\* MaxTicks milliseconds pass while the runs are observed
InitSeed ==
    /\ \E c \in Collections : \E f \in ExportFiles(c) : \E others \in BOOLEAN :
          InitSeedWith([d \in Collections |->
                          IF d = c THEN f ELSE IF others THEN BasicFile(d) ELSE MissingFile])
    /\ faults = MaxFaults
    /\ horizon = clock + MaxTicks

\* one collection is seeded from a one-record file, the others have no file
InitFields ==
    /\ \E c \in Collections : \E f \in FieldFiles(c) :
          InitSeedWith([d \in Collections |-> IF d = c THEN f ELSE MissingFile])
    /\ faults = 0
    /\ horizon = clock + MaxTicks

IdleSeed ==
    /\ InitSeedWith([d \in Collections |-> MissingFile])
    /\ faults = 0
    /\ horizon = clock + MaxTicks

Current == SeedOrder[stage]

\* the seed function of the current collection is over: main goes on to the
\* next one, or leaves the try block after the last
SeedReturns ==
    /\ reports' = [reports EXCEPT ![Current] =
                      [state |-> "returned", success |-> successCount', total |-> Len(recs')]]
    /\ idx' = 0
    /\ IF stage = Len(SeedOrder)
       THEN pc' = "finally" /\ stage' = stage
       ELSE pc' = "seeding" /\ stage' = stage + 1

\* an exception leaves the seed function of the current collection
SeedThrows ==
    /\ reports' = [reports EXCEPT ![Current] =
                      [state |-> "threw", success |-> successCount', total |-> Len(recs')]]
    /\ idx' = 0
    /\ stage' = stage
    /\ pc' = "catch"

\* await client.connect() succeeds
ConnectOk ==
    /\ pc = "start"
    /\ opened' = opened + 1
    /\ pc' = "seeding"
    /\ stage' = 1
    /\ UNCHANGED <<horizon, files, db, idx, recs, successCount, reports, faults, clock, run, closed,
                   exitCode, oplog, prev>>
    /\ UNCHANGED <<parseVars, handlerVars>>

\* await client.connect() rejects
ConnectFail ==
    /\ pc = "start"
    /\ faults > 0
    /\ faults' = faults - 1
    /\ opened' = opened + 1
    /\ pc' = "catch"
    /\ UNCHANGED <<horizon, files, db, stage, idx, recs, successCount, reports, clock, run, closed,
                   exitCode, oplog, prev>>
    /\ UNCHANGED <<parseVars, handlerVars>>

\* seedX: parseJSON throws (the file cannot be read)
SeedReadFails ==
    /\ pc = "seeding" /\ idx = 0
    /\ parseJSON(files[Current]).threw
    /\ recs' = <<>>
    /\ successCount' = 0
    /\ SeedThrows
    /\ UNCHANGED <<horizon, files, db, faults, clock, run, opened, closed, exitCode, oplog, prev>>
    /\ UNCHANGED <<parseVars, handlerVars>>

\* seedX: parseJSON returns no record, the function returns early
SeedNothing ==
    /\ pc = "seeding" /\ idx = 0
    /\ ~parseJSON(files[Current]).threw
    /\ parseJSON(files[Current]).value = <<>>
    /\ recs' = <<>>
    /\ successCount' = 0
    /\ SeedReturns
    /\ UNCHANGED <<horizon, files, db, faults, clock, run, opened, closed, exitCode, oplog, prev>>
    /\ UNCHANGED <<parseVars, handlerVars>>

\* seedX: parseJSON returns the records, the loop starts
SeedLoad ==
    /\ pc = "seeding" /\ idx = 0
    /\ ~parseJSON(files[Current]).threw
    /\ parseJSON(files[Current]).value # <<>>
    /\ recs' = parseJSON(files[Current]).value
    /\ successCount' = 0
    /\ idx' = 1
    /\ UNCHANGED <<horizon, files, db, pc, stage, reports, faults, clock, run, opened, closed,
                   exitCode, oplog, prev>>
    /\ UNCHANGED <<parseVars, handlerVars>>

InLoop == pc = "seeding" /\ idx >= 1 /\ idx <= Len(recs)

\* what the two new Date() of a $set document return, createdAt's first: the
\* clock is read only for a stamp the record lacks, never runs backwards, and
\* does not pass horizon while the runs are observed
Readings(r) ==
    { t \in (clock..horizon) \X (clock..horizon) :
         /\ t[1] <= t[2]
         /\ Truthy(Prop(r, "createdAt")) => t[1] = clock
         /\ Truthy(Prop(r, "updatedAt")) => t[2] = t[1] }

Attempt(ok, t) ==
    [c |-> Current, i |-> idx, ok |-> ok, created |-> t[1], updated |-> t[2]]

\* one iteration of the loop: the upsert of recs[idx], with the $set document
\* built at the readings t, as the database answers it
UpsertResult(t) ==
    updateOne(db[Current], KeyOf(Current), FilterValue(Current, recs[idx]),
              SetDocument(Current, recs[idx], t[1], t[2]))

\* the upsert is applied
UpsertDone ==
    /\ InLoop
    /\ recs[idx] # Null
    /\ \E t \in Readings(recs[idx]) :
          /\ UpsertResult(t).ok
          /\ db' = [db EXCEPT ![Current] = UpsertResult(t).coll]
          /\ oplog' = Append(oplog, Attempt(TRUE, t))
          /\ clock' = t[2]
    /\ successCount' = successCount + 1
    /\ idx' = idx + 1
    /\ UNCHANGED <<horizon, files, pc, stage, recs, reports, faults, run, opened, closed,
                   exitCode, prev>>
    /\ UNCHANGED <<parseVars, handlerVars>>

\* the database rejects the upsert: the error is caught and logged
UpsertRejected ==
    /\ InLoop
    /\ recs[idx] # Null
    /\ \E t \in Readings(recs[idx]) :
          /\ ~UpsertResult(t).ok
          /\ oplog' = Append(oplog, Attempt(FALSE, t))
          /\ clock' = t[2]
    /\ idx' = idx + 1
    /\ UNCHANGED <<horizon, files, db, pc, stage, recs, successCount, reports, faults, run,
                   opened, closed, exitCode, prev>>
    /\ UNCHANGED <<parseVars, handlerVars>>

\* the upsert fails on the connection: the error is caught and logged
UpsertFault ==
    /\ InLoop
    /\ recs[idx] # Null
    /\ faults > 0
    /\ faults' = faults - 1
    /\ \E t \in Readings(recs[idx]) :
          /\ oplog' = Append(oplog, Attempt(FALSE, t))
          /\ clock' = t[2]
    /\ idx' = idx + 1
    /\ UNCHANGED <<horizon, files, db, pc, stage, recs, successCount, reports, run, opened,
                   closed, exitCode, prev>>
    /\ UNCHANGED <<parseVars, handlerVars>>

\* the record is null: reading its key throws in the try block and again in
\* the catch block, so the TypeError leaves the seed function
UpsertNullRecord ==
    /\ InLoop
    /\ recs[idx] = Null
    /\ UNCHANGED <<recs, successCount>>
    /\ SeedThrows
    /\ UNCHANGED <<horizon, files, db, faults, clock, run, opened, closed, exitCode, oplog, prev>>
    /\ UNCHANGED <<parseVars, handlerVars>>

\* the loop is over: the count is logged and the function returns
SeedEnd ==
    /\ pc = "seeding" /\ idx = Len(recs) + 1
    /\ UNCHANGED <<recs, successCount>>
    /\ SeedReturns
    /\ UNCHANGED <<horizon, files, db, faults, clock, run, opened, closed, exitCode, oplog, prev>>
    /\ UNCHANGED <<parseVars, handlerVars>>

\* a variant of the next action for a main without its finally block
MainCatchNoFinally ==
    /\ pc = "catch"
    /\ exitCode' = 1
    /\ pc' = "exit"
    /\ UNCHANGED <<horizon, files, db, stage, idx, recs, successCount, reports, faults, clock, run,
                   opened, closed, oplog, prev>>
    /\ UNCHANGED <<parseVars, handlerVars>>

\* catch (error) { log; throw error }: main will reject and the process exit with 1
MainCatch ==
    /\ pc = "catch"
    /\ exitCode' = 1
    /\ pc' = "finally"
    /\ UNCHANGED <<horizon, files, db, stage, idx, recs, successCount, reports, faults, clock, run,
                   opened, closed, oplog, prev>>
    /\ UNCHANGED <<parseVars, handlerVars>>

\* finally { await client.close() }
MainFinally ==
    /\ pc = "finally"
    /\ closed' = closed + 1
    /\ pc' = "exit"
    /\ UNCHANGED <<horizon, files, db, stage, idx, recs, successCount, reports, faults, clock, run,
                   opened, exitCode, oplog, prev>>
    /\ UNCHANGED <<parseVars, handlerVars>>

CleanRun == exitCode = 0 /\ \A n \in DOMAIN oplog : oplog[n].ok

\* the script is started again on the same files and the same database; the
\* time that has passed shows at the next new Date()
Rerun ==
    /\ pc = "exit"
    /\ run < MaxRuns
    /\ run' = run + 1
    /\ clock' = clock
    /\ prev' = [db |-> db, clean |-> CleanRun]
    /\ pc' = "start"
    /\ stage' = 0
    /\ idx' = 0
    /\ recs' = <<>>
    /\ successCount' = 0
    /\ reports' = [c \in Collections |-> NotRun]
    /\ opened' = 0
    /\ closed' = 0
    /\ exitCode' = 0
    /\ oplog' = <<>>
    /\ UNCHANGED <<horizon, files, db, faults>>
    /\ UNCHANGED <<parseVars, handlerVars>>

----------------------------------------------------------------------------
(* The serverless entry point.  handleEmployeeManagementRequest lives in   *)
(* handler.mjs: it is given the request and the response, may answer, and  *)
(* resolves with a value or rejects with an Error.                         *)

\* new Error(message)
Error(m) == Obj("message" :> Str(m))

\* JSON.stringify of an object: properties whose value is undefined are left out
JSONstringify(v) ==
    [t |-> "json",
     of |-> Obj([k \in {q \in DOMAIN v.o : v.o[q] # Undefined} |-> v.o[k]])]

\* a ServerResponse nothing has been written to
FreshResponse == [statusCode |-> 200, headers |-> <<>>, ended |-> 0, body |-> Null]

Requests ==
    [url : {"/api/employee-management/employees", "/api/employee-management/projects", "/"},
     method : {"GET", "POST", "DELETE"},
     headers : {<<>>, ("content-type" :> "application/json")}]

\* what one call of handleEmployeeManagementRequest does
Behaviours ==
    [kind : {"resolve"}, value : {Undefined, Str("done")}, answers : BOOLEAN]
    \cup [kind : {"reject"}, error : {Error("boom"), Error(""), Error("connect ECONNREFUSED")}]

\* the response as the callee leaves it
handleEmployeeManagementRequest(req, res, behaviour) ==
    IF behaviour.kind = "resolve" /\ behaviour.answers
    THEN [res EXCEPT !.statusCode = 200,
                     !.headers = ("Content-Type" :> "application/json") @@ @,
                     !.ended = @ + 1,
                     !.body = JSONstringify(Obj("url" :> Str(req.url)))]
    ELSE res

InitHandler ==
    /\ hreq \in Requests
    /\ hres = FreshResponse
    /\ hinner \in Behaviours
    /\ hpc = "entry"
    /\ hret = Undefined
    /\ hargs = [req |-> Null, res |-> Null, left |-> Null]

IdleHandler ==
    /\ hreq = Null
    /\ hres = Null
    /\ hinner = Null
    /\ hpc = "idle"
    /\ hret = Undefined
    /\ hargs = [req |-> Null, res |-> Null, left |-> Null]

\* handler logs the request and awaits handleEmployeeManagementRequest(req, res)
HandlerCall ==
    /\ hpc = "entry"
    /\ hargs' = [req |-> hreq, res |-> hres,
                 left |-> handleEmployeeManagementRequest(hreq, hres, hinner)]
    /\ hres' = handleEmployeeManagementRequest(hreq, hres, hinner)
    /\ hpc' = IF hinner.kind = "resolve" THEN "resolved" ELSE "rejected"
    /\ UNCHANGED <<hreq, hinner, hret>>
    /\ UNCHANGED <<parseVars, seedVars>>

\* return await ...: the handler resolves with the callee's value
HandlerReturn ==
    /\ hpc = "resolved"
    /\ hret' = hinner.value
    /\ hpc' = "returned"
    /\ UNCHANGED <<hreq, hres, hinner, hargs>>
    /\ UNCHANGED <<parseVars, seedVars>>

\* a variant of the next action that sets the status and never ends the response
HandlerCatchNoEnd ==
    /\ hpc = "rejected"
    /\ hres' = [hres EXCEPT !.statusCode = 500,
                            !.headers = ("Content-Type" :> "application/json") @@ @]
    /\ hret' = Undefined
    /\ hpc' = "returned"
    /\ UNCHANGED <<hreq, hinner, hargs>>
    /\ UNCHANGED <<parseVars, seedVars>>

\* catch (error): status 500, the JSON content type, the JSON body
HandlerCatch ==
    /\ hpc = "rejected"
    /\ hres' = [hres EXCEPT !.statusCode = 500,
                            !.headers = ("Content-Type" :> "application/json") @@ @,
                            !.ended = @ + 1,
                            !.body = JSONstringify(Obj(
                                ("error" :> Str("Internal server error"))
                                @@ ("message" :> Prop(hinner.error, "message"))))]
    /\ hret' = Undefined
    /\ hpc' = "returned"
    /\ UNCHANGED <<hreq, hinner, hargs>>
    /\ UNCHANGED <<parseVars, seedVars>>

----------------------------------------------------------------------------
(* Specifications *)

\* the seed script, run up to MaxRuns times on one set of export files
Init == InitSeed /\ IdleParse /\ IdleHandler

Next ==
    \/ ConnectOk
    \/ ConnectFail
    \/ SeedReadFails
    \/ SeedNothing
    \/ SeedLoad
    \/ UpsertDone
    \/ UpsertRejected
    \/ UpsertFault
    \/ UpsertNullRecord
    \/ SeedEnd
    \/ MainCatch
    \/ MainFinally
    \/ Rerun

Spec == Init /\ [][Next]_vars

\* one run of the seed script on a one-record export, the database answering
InitFieldsOnly == InitFields /\ IdleParse /\ IdleHandler
NextFields == ConnectOk \/ SeedNothing \/ SeedLoad \/ UpsertDone \/ SeedEnd \/ MainFinally
SpecFields == InitFieldsOnly /\ [][NextFields]_vars

\* parseMongoDBExtendedJSON applied to one value
InitParseOnly == InitParse /\ IdleSeed /\ IdleHandler
NextParse == ParseCall
SpecParse == InitParseOnly /\ [][NextParse]_vars

\* the handler serving one request
InitHandlerOnly == InitHandler /\ IdleParse /\ IdleSeed
NextHandler == HandlerCall \/ HandlerReturn \/ HandlerCatch
SpecHandler == InitHandlerOnly /\ [][NextHandler]_vars

----------------------------------------------------------------------------
(* Properties of parseMongoDBExtendedJSON (checked under SpecParse) *)

WrapperKeys == {"$date", "$numberLong", "$numberInt", "$oid"}

IsWrapper(v) == v.t = "obj" /\ DOMAIN v.o \cap WrapperKeys # {}

\* some object of v, at any depth, carries a wrapper key
RECURSIVE HasWrapper(_)
HasWrapper(v) ==
    CASE v.t = "obj" -> IsWrapper(v) \/ \E k \in DOMAIN v.o : HasWrapper(v.o[k])
      [] v.t = "arr" -> \E i \in DOMAIN v.a : HasWrapper(v.a[i])
      [] OTHER -> FALSE

DigitChar(d) ==
    CASE d = 0 -> "0" [] d = 1 -> "1" [] d = 2 -> "2" [] d = 3 -> "3" [] d = 4 -> "4"
      [] d = 5 -> "5" [] d = 6 -> "6" [] d = 7 -> "7" [] d = 8 -> "8" [] d = 9 -> "9"

\* the decimal numeral of an integer, as an export writes it
RECURSIVE DecDigits(_)
DecDigits(n) ==
    IF n < 10 THEN <<DigitChar(n)>> ELSE Append(DecDigits(n \div 10), DigitChar(n % 10))

DecChars(n) == IF n < 0 THEN <<"-">> \o DecDigits(0 - n) ELSE DecDigits(n)

IntCandidates == (-20 .. 20) \cup {1728074791}

\* Date.prototype.toISOString for the instants of the model
IsoString(ms) ==
    CASE ms = 1 -> "1970-01-01T00:00:00.001Z"
      [] ms = 2 -> "1970-01-01T00:00:00.002Z"
      [] ms = 3 -> "1970-01-01T00:00:00.003Z"
      [] OTHER -> "?"

Instants == 1 .. 3

TheKey(v) == CHOOSE k \in DOMAIN v.o : TRUE

\* v is a wrapper as relaxed Extended JSON writes it: one key, a string that
\* is the numeral of an integer, the ISO text of an instant, or an object id
ExportWrapper(v) ==
    /\ v.t = "obj"
    /\ Cardinality(DOMAIN v.o) = 1
    /\ TheKey(v) \in WrapperKeys
    /\ v.o[TheKey(v)].t = "str"
    /\ TheKey(v) \in {"$numberInt", "$numberLong"} =>
          \E n \in IntCandidates : Chars(v.o[TheKey(v)].s) = DecChars(n)
    /\ TheKey(v) = "$date" => \E ms \in Instants : IsoString(ms) = v.o[TheKey(v)].s

\* v is a date as canonical Extended JSON writes it:
\* {"$date": {"$numberLong": "<milliseconds>"}}
CanonicalDate(v) ==
    /\ v.t = "obj"
    /\ DOMAIN v.o = {"$date"}
    /\ ExportWrapper(v.o["$date"])
    /\ DOMAIN v.o["$date"].o = {"$numberLong"}

\* every wrapper of v is one that Extended JSON writes
RECURSIVE WellFormed(_)
WellFormed(v) ==
    CASE v.t = "obj" -> IF IsWrapper(v) THEN ExportWrapper(v) \/ CanonicalDate(v)
                        ELSE \A k \in DOMAIN v.o : WellFormed(v.o[k])
      [] v.t = "arr" -> \A i \in DOMAIN v.a : WellFormed(v.a[i])
      [] OTHER -> TRUE

\* out is the native equivalent of the well-formed value in
RECURSIVE Native(_, _)
Native(in, out) ==
    CASE IsWrapper(in) ->
            IF CanonicalDate(in)
            THEN \E n \in IntCandidates :
                    /\ Chars(in.o["$date"].o["$numberLong"].s) = DecChars(n)
                    /\ out = Date(n)
            ELSE LET tag == TheKey(in)
                     text == in.o[tag].s
                 IN  IF tag \in {"$numberInt", "$numberLong"}
                     THEN \E n \in IntCandidates : Chars(text) = DecChars(n) /\ out = Num(n)
                     ELSE IF tag = "$date"
                     THEN \E ms \in Instants : IsoString(ms) = text /\ out = Date(ms)
                     ELSE out = Str(text)
      [] in.t = "obj" /\ ~IsWrapper(in) ->
            /\ out.t = "obj"
            /\ DOMAIN out.o = DOMAIN in.o
            /\ \A k \in DOMAIN in.o : Native(in.o[k], out.o[k])
      [] in.t = "arr" ->
            /\ out.t = "arr"
            /\ DOMAIN out.a = DOMAIN in.a
            /\ \A i \in DOMAIN in.a : Native(in.a[i], out.a[i])
      [] OTHER -> out = in

\* C4: parseMongoDBExtendedJSON turns every Extended JSON wrapper of its
\* argument, at any depth inside arrays and objects, into the native value
\* ($numberInt and $numberLong into the integer the string denotes, $date into
\* the date it denotes, $oid into the string), keeps every other scalar,
\* array and object as it is, and so returns a value without wrapper objects.
ParseYieldsNative ==
    (pst = "done" /\ WellFormed(pin)) => (Native(pin, pout) /\ ~HasWrapper(pout))

----------------------------------------------------------------------------
(* Properties of the handler (checked under SpecHandler) *)

----------------------------------------------------------------------------
(* Properties of the seed script (checked under Spec) *)

\* the position of a collection in the documented seeding order
ClaimedOrder(c) ==
    CASE c = "Counter" -> 1
      [] c = "DepartmentParent" -> 2
      [] c = "DepartmentChild" -> 3
      [] c = "Employee" -> 4
      [] c = "Project" -> 5
      [] c = "ProjectEmployee" -> 6

\* the records parseJSON hands to the seed function of c
Parsed(c) == parseJSON(files[c]).value

\* the upserts of this run on collection c, in the order they were made
AttemptsOf(c) == SelectSeq(oplog, LAMBDA e : e.c = c)

\* C1: a second run on the same export files, in which as in the first every
\* upsert succeeded, leaves every collection exactly as the first run left it,
\* createdAt and updatedAt included.
IdempotentRerun ==
    (pc = "exit" /\ run >= 2 /\ prev.clean /\ CleanRun) => db = prev.db

\* C2: every collection holds at most one document per business key, whatever
\* the export files hold and however often the script has run.
UniqueKeys ==
    \A c \in Collections : \A i, j \in DOMAIN db[c] :
        db[c][i][KeyOf(c)] = db[c][j][KeyOf(c)] => i = j

\* the second run is over on a file with two records of one key, and the
\* collection holds one document
UniqueKeysWitness ==
    /\ pc = "exit" /\ run = 2
    /\ \E c \in Collections :
          /\ reports[c].state = "returned"
          /\ reports[c].total = 2
          /\ FilterValue(c, Parsed(c)[1]) = FilterValue(c, Parsed(c)[2])
          /\ Len(db[c]) = 1

BadFile(c) == files[c].kind \in {"missing", "blank", "invalid"}

\* C5: for a missing, blank or invalid export file parseJSON returns the empty
\* list, the seed function makes no upsert and returns normally, the
\* collection stays as it was, and main goes on with the next collection.
BadFilesSkipped ==
    [][ /\ \A c \in Collections : BadFile(c) => db'[c] = db[c]
        /\ (pc = "seeding" /\ idx = 0 /\ BadFile(Current)) =>
              /\ parseJSON(files[Current]) = Returned(<<>>)
              /\ oplog' = oplog
              /\ reports'[Current] = [state |-> "returned", success |-> 0, total |-> 0]
              /\ exitCode' = exitCode
              /\ IF ClaimedOrder(Current) = 6
                 THEN pc' = "finally"
                 ELSE /\ pc' = "seeding"
                      /\ idx' = 0
                      /\ ClaimedOrder(SeedOrder[stage']) = ClaimedOrder(Current) + 1
      ]_vars

\* Employee.json was not valid JSON: nothing was upserted into Employee, and
\* the projects and project employees after it were seeded
BadFilesWitness ==
    /\ pc = "exit" /\ exitCode = 0
    /\ files["Employee"] = InvalidFile
    /\ reports["Employee"] = [state |-> "returned", success |-> 0, total |-> 0]
    /\ db["Employee"] = <<>>
    /\ Len(db["Project"]) = 1
    /\ Len(db["ProjectEmployee"]) = 1

\* C6: in a seed function a failing record does not end the batch: once the
\* file has been read the function returns normally having attempted every
\* record of the file, and the count it reports is the number of upserts that
\* did not throw, between 0 and the total and equal to the total exactly when
\* none failed.
BatchSurvivesFailures ==
    \A c \in Collections : ~parseJSON(files[c]).threw =>
        /\ reports[c].state # "threw"
        /\ reports[c].state = "returned" =>
              /\ reports[c].total = Len(Parsed(c))
              /\ Len(AttemptsOf(c)) = reports[c].total
              /\ \A n \in DOMAIN AttemptsOf(c) : AttemptsOf(c)[n].i = n
              /\ reports[c].success =
                    Cardinality({n \in DOMAIN AttemptsOf(c) : AttemptsOf(c)[n].ok})
              /\ reports[c].success >= 0
              /\ reports[c].success <= reports[c].total
              /\ (reports[c].success = reports[c].total) <=>
                    (\A n \in DOMAIN AttemptsOf(c) : AttemptsOf(c)[n].ok)

\* C7: in a run of main the connection is opened at most once and closed
\* exactly once, on every way out (normal end, failed connect, exception of a
\* seed step); the close comes after the last seed step, and seed steps run
\* only while the connection is open.
ConnectionLifecycle ==
    [][ /\ opened' <= 1
        /\ closed' <= 1
        /\ pc' = "exit" <=> closed' = 1
        /\ closed' # closed => (pc = "finally" \/ run' # run)
        /\ ((db' # db \/ oplog' # oplog \/ reports' # reports \/ recs' # recs)
               /\ run' = run) => (pc = "seeding" /\ opened = 1 /\ closed = 0)
      ]_vars

\* main ended on the exception of a seed step, with the connection closed
LifecycleWitness ==
    /\ pc = "exit"
    /\ exitCode = 1
    /\ opened = 1
    /\ closed = 1
    /\ \E c \in Collections : reports[c].state = "threw"

\* C9: the collections are seeded one after the other in the order Counter,
\* DepartmentParent, DepartmentChild, Employee, Project, ProjectEmployee, each
\* one finished before the next starts, the records of a file in file order;
\* so, when the connection has not failed and two records of a file share a
\* business key, the document stored under the key is the one of the later
\* record.
SequentialSeeding ==
    /\ \A m, n \in DOMAIN oplog : m < n =>
          \/ ClaimedOrder(oplog[m].c) < ClaimedOrder(oplog[n].c)
          \/ (oplog[m].c = oplog[n].c /\ oplog[m].i < oplog[n].i)
    /\ \A n \in DOMAIN oplog :
          IF n > 1 /\ oplog[n - 1].c = oplog[n].c
          THEN oplog[n].i = oplog[n - 1].i + 1
          ELSE oplog[n].i = 1
    /\ pc = "seeding" =>
          \A c \in Collections :
              /\ ClaimedOrder(c) < ClaimedOrder(Current) => reports[c].state = "returned"
              /\ ClaimedOrder(c) > ClaimedOrder(Current) =>
                    (reports[c].state = "notrun" /\ AttemptsOf(c) = <<>>)
    /\ \A c \in Collections : (reports[c].state = "returned" /\ faults = MaxFaults) =>
          \A i, j \in DOMAIN Parsed(c) :
              ( /\ i < j
                /\ FilterValue(c, Parsed(c)[i]) = FilterValue(c, Parsed(c)[j])
                /\ \A m \in DOMAIN Parsed(c) :
                      m > j => FilterValue(c, Parsed(c)[m]) # FilterValue(c, Parsed(c)[j]) )
              => \E d \in DOMAIN db[c] :
                    db[c][d] = SetDocument(c, Parsed(c)[j], AttemptsOf(c)[j].created,
                                           AttemptsOf(c)[j].updated)

----------------------------------------------------------------------------
(* Properties of the $set documents (checked under SpecFields) *)

ListFields ==
    {"tags", "skills", "certifications", "interests", "languages", "categories",
     "focusAreas", "cmsContentRefs", "responsibilities", "skillsApplied", "toolsUsed"}

DateFields ==
    {"createdAt", "updatedAt", "hireDate", "lastActiveAt", "startDate", "endDate",
     "approvalRequestedAt", "approvalResolvedAt", "lastSyncedAt", "archivedAt",
     "assignedDate", "unassignedAt"}

\* the documented default of a field that the source record does not have
DocumentedDefault(f, at) ==
    CASE f \in ListFields -> Arr(<<>>)
      [] f = "isActive" -> Bool(TRUE)
      [] f \in {"status", "approvalStatus"} -> Str("draft")
      [] f = "createdAt" -> Date(at.created)
      [] f = "updatedAt" -> Date(at.updated)
      [] OTHER -> Null

\* C3: a field that the source record does not have is stored with its
\* documented default: list fields as the empty array, isActive as true,
\* status and approvalStatus as "draft", createdAt and updatedAt as the
\* time at which the seed function built the document (not before the start
\* of the run, updatedAt not before createdAt), every other field as null.
DefaultsApplied ==
    \A c \in Collections : \A d \in DOMAIN db[c] : \A f \in DOMAIN db[c][d] :
        Prop(Parsed(c)[1], f) = Undefined =>
            /\ Len(oplog) = 1
            /\ 10 <= oplog[1].created
            /\ oplog[1].created <= oplog[1].updated
            /\ oplog[1].updated <= clock
            /\ db[c][d][f] = DocumentedDefault(f, oplog[1])

\* an employee whose record has no tags, isActive, hireDate or createdAt has
\* been stored
DefaultsWitness ==
    /\ pc = "exit"
    /\ Len(db["Employee"]) = 1
    /\ Prop(Parsed("Employee")[1], "tags") = Undefined
    /\ Prop(Parsed("Employee")[1], "isActive") = Undefined
    /\ Prop(Parsed("Employee")[1], "createdAt") = Undefined
    /\ db["Employee"][1].bio = Str("abc")
    /\ db["Employee"][1].tags = Arr(<<>>)
    /\ db["Employee"][1].isActive = Bool(TRUE)
    /\ db["Employee"][1].hireDate = Null
    /\ db["Employee"][1].createdAt = Date(oplog[1].created)
    /\ db["Employee"][1].updatedAt = Date(oplog[1].updated)
    /\ oplog[1].created < oplog[1].updated

\* C10: a field that the source record has, with whatever value (0, false and
\* the empty string included), is stored with that value.  Date fields, which
\* are stored as Date objects, are left aside.
PresentValuesKept ==
    \A c \in Collections : \A d \in DOMAIN db[c] : \A f \in DOMAIN db[c][d] \ DateFields :
        Prop(Parsed(c)[1], f) # Undefined => db[c][d][f] = Prop(Parsed(c)[1], f)

====
